---- MODULE Spec2Model ----
(***************************************************************************)
(* A model of reframe/core/environments.py: the Environment object and    *)
(* its load/unload/emit protocol, the EnvironmentSnapshot, and the         *)
(* save_environment context manager, acting on the process-wide ambient    *)
(* state (os.environ and the modules system).                              *)
(***************************************************************************)
EXTENDS Integers, Sequences, FiniteSets, TLC

VARIABLES
    os_environ,      \* os.environ: variable name -> value (NoValue = key absent)
    loaded_modules,  \* the modules system's set of active modules
    env,             \* the Environment object E
    other,           \* a second Environment object: the right operand of ==, or B
    script,          \* the last command list returned by an emit_* call
    guard,           \* the save_environment context manager and its snapshot
    backend,         \* which variant of the modules system the runtime resolved
    hist             \* history: what the last calls did (not program state)

vars == <<os_environ, loaded_modules, env, other, script, guard, backend, hist>>

----------------------------------------------------------------------------
(* Bounds of the model *)

\* longest declared module list
MaxModules == 2
\* most declared variables
MaxVars == 2
\* most load() calls on the one Environment
MaxCycles == 2
\* most changes of the ambient state by another party between activations
MaxChanges == 1
\* most ambient mutations made by a protected region
MaxRegionSteps == 2
\* most calls of the snapshot's load() made by the region itself
MaxSnapshotLoads == 2

----------------------------------------------------------------------------
(* The universe of names and values *)

\* modules the backend knows, and one it does not
Available == {"A", "B", "C"}
Missing == "Z"
ModuleOrder == <<"A", "B", "C", "Z">>
\* the backend's conflict relation: A and B exclude each other, B and C too
ConflictPairs == {<<"A", "B">>, <<"B", "A">>, <<"B", "C">>, <<"C", "B">>}

VarNames == {"X", "Y"}
NoValue == "<absent>"
\* values without a reference, and values that are one reference
RefName(v) == IF v = "$X" THEN "X" ELSE IF v = "$Y" THEN "Y" ELSE NoValue
IsRef(v) == RefName(v) # NoValue

SeqOfSet(S) == SelectSeq(ModuleOrder, LAMBDA m : m \in S)
Range(s) == {s[i] : i \in 1..Len(s)}
Reverse(s) == [i \in 1..Len(s) |-> s[Len(s) + 1 - i]]
SeqsUpTo(S, n) == UNION {[1..k -> S] : k \in 0..n}

----------------------------------------------------------------------------
(* The modules system (runtime().modules_system) *)

is_module_loaded(active, m) == m \in active

ConflictsOf(m) == {c \in Available : <<m, c>> \in ConflictPairs}

\* the variants differ in a plain load of a module that conflicts with an
\* active one: a permissive backend loads it beside the other, a strict one
\* raises and loads nothing
BackendVariants == {"permissive", "strict"}

\* load_module(m, force): nothing to do for an active module; with force the
\* active modules that conflict with m are unloaded first and returned.  A
\* module the backend does not know makes it raise before it changes anything.
load_module(active, m, force) ==
    IF m \notin Available
    THEN [raised |-> TRUE, active |-> active, unloaded |-> <<>>]
    ELSE IF m \in active
    THEN [raised |-> FALSE, active |-> active, unloaded |-> <<>>]
    ELSE IF ~force /\ backend = "strict" /\ active \cap ConflictsOf(m) # {}
    THEN [raised |-> TRUE, active |-> active, unloaded |-> <<>>]
    ELSE LET unload_list == IF force THEN active \cap ConflictsOf(m) ELSE {}
         IN  [raised |-> FALSE,
              active |-> (active \ unload_list) \cup {m},
              unloaded |-> SeqOfSet(unload_list)]

unload_module(active, m) == active \ {m}

ModuleCmd(c, m) == [cmd |-> c, name |-> m, value |-> ""]
backend_emit_load_commands(m) == <<ModuleCmd("module load", m)>>
backend_emit_unload_commands(m) == <<ModuleCmd("module unload", m)>>

\* a request made to the backend, as the history records it
Request(op, m, force, unloaded) ==
    [op |-> op, module |-> m, force |-> force, unloaded |-> unloaded]

----------------------------------------------------------------------------
(* os.path.expandvars on a value that is a literal or one reference *)

expandvars(v, environ) ==
    IF IsRef(v) /\ environ[RefName(v)] # NoValue THEN environ[RefName(v)] ELSE v

----------------------------------------------------------------------------
(* Environment *)

EmptyDict == [k \in VarNames |-> NoValue]

\* Environment.__init__
Environment(name, modules, variables) ==
    [name |-> name,
     modules |-> modules,
     variables |-> variables,
     loaded |-> FALSE,
     saved_variables |-> EmptyDict,
     conflicted |-> <<>>,
     preloaded |-> {},
     module_ops |-> <<>>]

\* the module loop of load(), from the i-th declared module on
RECURSIVE LoadModules(_, _)
LoadModules(st, i) ==
    IF i > Len(st.E.modules) THEN st
    ELSE LET m == st.E.modules[i]
             preloaded == IF is_module_loaded(st.active, m)
                          THEN st.E.preloaded \cup {m}
                          ELSE st.E.preloaded
             r == load_module(st.active, m, TRUE)
             req == Request("load", m, TRUE, r.unloaded)
         IN  IF r.raised
             THEN [st EXCEPT !.E.preloaded = preloaded,
                             !.raised = TRUE,
                             !.reqs = Append(@, req)]
             ELSE LoadModules(
                    [st EXCEPT
                       !.E.preloaded = preloaded,
                       !.E.module_ops =
                           @ \o [j \in 1..Len(r.unloaded) |-> <<"u", r.unloaded[j]>>]
                             \o << <<"l", m>> >>,
                       !.E.conflicted = @ \o r.unloaded,
                       !.active = r.active,
                       !.reqs = Append(@, req)],
                    i + 1)

\* a variable loop that walks the declared variables from the last to the first
RECURSIVE SetVariables_backwards(_, _)
SetVariables_backwards(st, i) ==
    IF i > Len(st.E.variables) THEN st
    ELSE LET p == st.E.variables[Len(st.E.variables) + 1 - i]
             saved == IF st.environ[p[1]] # NoValue
                      THEN [st.E.saved_variables EXCEPT ![p[1]] = st.environ[p[1]]]
                      ELSE st.E.saved_variables
         IN  SetVariables_backwards(
               [st EXCEPT !.E.saved_variables = saved,
                          !.environ = [@ EXCEPT ![p[1]] = expandvars(p[2], st.environ)]],
               i + 1)

\* the variable loop of load(), from the i-th declared variable on
RECURSIVE SetVariables(_, _)
SetVariables(st, i) ==
    IF i > Len(st.E.variables) THEN st
    ELSE LET k == st.E.variables[i][1]
             v == st.E.variables[i][2]
             saved == IF st.environ[k] # NoValue
                      THEN [st.E.saved_variables EXCEPT ![k] = st.environ[k]]
                      ELSE st.E.saved_variables
         IN  SetVariables(
               [st EXCEPT !.E.saved_variables = saved,
                          !.environ = [@ EXCEPT ![k] = expandvars(v, st.environ)]],
               i + 1)

\* load() with a rollback: a failure of the backend puts back the modules
Environment_load_rollback(E, environ, active) ==
    LET st0 == [E |-> E, environ |-> environ, active |-> active,
                raised |-> FALSE, reqs |-> <<>>]
        st1 == LoadModules(st0, 1)
        st2 == SetVariables(st1, 1)
    IN  IF st1.raised THEN [st1 EXCEPT !.active = active]
        ELSE [st2 EXCEPT !.E.loaded = TRUE]

\* Environment.load(): the modules, then the variables, then the flag.  An
\* error of the backend leaves load() at once.
Environment_load(E, environ, active) ==
    LET st0 == [E |-> E, environ |-> environ, active |-> active,
                raised |-> FALSE, reqs |-> <<>>]
        st1 == LoadModules(st0, 1)
        st2 == SetVariables(st1, 1)
    IN  IF st1.raised THEN st1 ELSE [st2 EXCEPT !.E.loaded = TRUE]

\* the variable loop of unload()
RECURSIVE RestoreVariables(_, _, _)
RestoreVariables(E, environ, i) ==
    IF i > Len(E.variables) THEN environ
    ELSE LET k == E.variables[i][1]
         IN  RestoreVariables(
               E,
               IF E.saved_variables[k] # NoValue
               THEN [environ EXCEPT ![k] = E.saved_variables[k]]
               ELSE [environ EXCEPT ![k] = NoValue],
               i + 1)

\* the loop of unload() over the reversed module list
RECURSIVE UnloadModules(_, _)
UnloadModules(st, i) ==
    IF i < 1 THEN st
    ELSE LET m == st.E.modules[i]
         IN  UnloadModules(
               IF m \notin st.E.preloaded
               THEN [st EXCEPT !.active = unload_module(@, m),
                               !.reqs = Append(@, Request("unload", m, FALSE, <<>>))]
               ELSE st,
               i - 1)

\* the loop of unload() that loads the conflicted modules again
RECURSIVE ReloadConflicted(_, _)
ReloadConflicted(st, i) ==
    IF i > Len(st.E.conflicted) THEN st
    ELSE LET m == st.E.conflicted[i]
             r == load_module(st.active, m, FALSE)
             req == Request("load", m, FALSE, r.unloaded)
         IN  IF r.raised
             THEN [st EXCEPT !.raised = TRUE, !.reqs = Append(@, req)]
             ELSE ReloadConflicted(
                    [st EXCEPT !.active = r.active, !.reqs = Append(@, req)],
                    i + 1)

\* an unload() that loads the conflicted modules again before it unloads its own
Environment_unload_reload_first(E, environ, active) ==
    IF ~E.loaded
    THEN [E |-> E, environ |-> environ, active |-> active,
          raised |-> FALSE, reqs |-> <<>>]
    ELSE LET st0 == [E |-> E, environ |-> RestoreVariables(E, environ, 1),
                     active |-> active, raised |-> FALSE, reqs |-> <<>>]
             st1 == ReloadConflicted(st0, 1)
             st2 == UnloadModules(st1, Len(E.modules))
         IN  IF st1.raised THEN st1 ELSE [st2 EXCEPT !.E.loaded = FALSE]

\* Environment.unload()
Environment_unload(E, environ, active) ==
    IF ~E.loaded
    THEN [E |-> E, environ |-> environ, active |-> active,
          raised |-> FALSE, reqs |-> <<>>]
    ELSE LET st0 == [E |-> E, environ |-> RestoreVariables(E, environ, 1),
                     active |-> active, raised |-> FALSE, reqs |-> <<>>]
             st1 == UnloadModules(st0, Len(E.modules))
             st2 == ReloadConflicted(st1, 1)
         IN  IF st2.raised THEN st2 ELSE [st2 EXCEPT !.E.loaded = FALSE]

\* the command texts of a list of logged operations; swap exchanges the roles
RECURSIVE EmitOps(_, _)
EmitOps(ops, swap) ==
    IF ops = <<>> THEN <<>>
    ELSE LET op == ops[1][1]
             m == ops[1][2]
         IN  (IF (op = "l") # swap
              THEN backend_emit_load_commands(m)
              ELSE backend_emit_unload_commands(m))
             \o EmitOps(Tail(ops), swap)

DeclaredAsLoads(modules) == [i \in 1..Len(modules) |-> <<"l", modules[i]>>]

\* Environment.emit_load_commands()
emit_load_commands(E) ==
    LET module_ops == IF E.module_ops # <<>> THEN E.module_ops
                      ELSE DeclaredAsLoads(E.modules)
    IN  EmitOps(module_ops, FALSE)
        \o [i \in 1..Len(E.variables) |->
              [cmd |-> "export", name |-> E.variables[i][1],
               value |-> E.variables[i][2]]]

\* emit_unload_commands() that walks the log forwards
emit_unload_commands_forwards(E) ==
    LET module_ops == IF E.module_ops # <<>> THEN E.module_ops
                      ELSE DeclaredAsLoads(E.modules)
    IN  [i \in 1..Len(E.variables) |->
              [cmd |-> "unset", name |-> E.variables[i][1], value |-> ""]]
        \o EmitOps(module_ops, TRUE)

\* Environment.emit_unload_commands()
emit_unload_commands(E) ==
    LET module_ops == IF E.module_ops # <<>> THEN Reverse(E.module_ops)
                      ELSE DeclaredAsLoads(Reverse(E.modules))
    IN  [i \in 1..Len(E.variables) |->
              [cmd |-> "unset", name |-> E.variables[i][1], value |-> ""]]
        \o EmitOps(module_ops, TRUE)

\* emit_load_commands() that keeps the list it fell back to as the log
emit_load_commands_call_keeping(E) ==
    [E |-> [E EXCEPT !.module_ops = IF @ # <<>> THEN @
                                    ELSE DeclaredAsLoads(E.modules)],
     ret |-> emit_load_commands(E)]

\* a call of emit_load_commands(): the object after the call and the list
\* returned.  The method reads the log, the modules and the variables and
\* assigns to no attribute.
emit_load_commands_call(E) == [E |-> E, ret |-> emit_load_commands(E)]

\* a call of emit_unload_commands(): reversed() makes an iterator over the
\* log and leaves the log as it is
emit_unload_commands_call(E) == [E |-> E, ret |-> emit_unload_commands(E)]

----------------------------------------------------------------------------
(* EnvironmentSnapshot and save_environment *)

\* EnvironmentSnapshot.__init__: the loaded modules and a copy of os.environ
EnvironmentSnapshot(name, environ, active) ==
    [name |-> name,
     modules |-> SeqOfSet(active),
     variables |-> environ,
     conflicted |-> <<>>,
     loaded |-> FALSE]

\* os.environ.clear() and os.environ.update(d)
environ_clear(environ) == [k \in DOMAIN environ |-> NoValue]
environ_update(environ, d) ==
    [k \in DOMAIN environ |-> IF d[k] # NoValue THEN d[k] ELSE environ[k]]

\* a load() that forgets the clear()
EnvironmentSnapshot_load_noclear(snap, environ) ==
    [snap |-> [snap EXCEPT !.loaded = TRUE],
     environ |-> environ_update(environ, snap.variables)]

\* EnvironmentSnapshot.load()
EnvironmentSnapshot_load(snap, environ) ==
    [snap |-> [snap EXCEPT !.loaded = TRUE],
     environ |-> environ_update(environ_clear(environ), snap.variables)]

\* an unload() taken over from Environment: nothing for a snapshot that is
\* not loaded, else the captured variables are removed and the flag cleared
EnvironmentSnapshot_unload_inherited(snap, environ, active) ==
    IF ~snap.loaded
    THEN [raised |-> FALSE, snap |-> snap, environ |-> environ, active |-> active]
    ELSE [raised |-> FALSE,
          snap |-> [snap EXCEPT !.loaded = FALSE],
          environ |-> [k \in DOMAIN environ |->
                         IF snap.variables[k] # NoValue THEN NoValue ELSE environ[k]],
          active |-> active]

\* EnvironmentSnapshot.unload(): raises NotImplementedError at once
EnvironmentSnapshot_unload(snap, environ, active) ==
    [raised |-> TRUE, snap |-> snap, environ |-> environ, active |-> active]

\* a read of EnvironmentSnapshot.is_loaded: raises NotImplementedError at once
EnvironmentSnapshot_is_loaded(snap, environ, active) ==
    [raised |-> TRUE, snap |-> snap, environ |-> environ, active |-> active]

\* save_environment.__init__ and __enter__
save_environment_init(environ, active) ==
    EnvironmentSnapshot("env_snapshot", environ, active)

\* an __exit__ that restores only when the region ended normally
save_environment_exit_normal_only(snap, environ, exc) ==
    LET r == EnvironmentSnapshot_load(snap, environ)
    IN  IF exc THEN [snap |-> snap, environ |-> environ, propagated |-> exc]
        ELSE [snap |-> r.snap, environ |-> r.environ, propagated |-> exc]

\* save_environment.__exit__: load the snapshot; the None it returns lets an
\* exception of the region go on to the caller
save_environment_exit(snap, environ, exc) ==
    LET r == EnvironmentSnapshot_load(snap, environ)
    IN  [snap |-> r.snap, environ |-> r.environ, propagated |-> exc]

----------------------------------------------------------------------------
(* A shell that runs an emitted command list on an ambient state *)

\* the shell's expansion of a value: a reference to an unset variable is empty
ShellExpand(v, environ) ==
    IF IsRef(v)
    THEN (IF environ[RefName(v)] # NoValue THEN environ[RefName(v)] ELSE "")
    ELSE v

\* one command: the module commands are the backend's plain load and unload
ExecCommand(c, amb) ==
    IF c.cmd = "export"
    THEN [amb EXCEPT !.environ = [@ EXCEPT ![c.name] = ShellExpand(c.value, amb.environ)]]
    ELSE IF c.cmd = "unset"
    THEN [amb EXCEPT !.environ = [@ EXCEPT ![c.name] = NoValue]]
    ELSE IF c.cmd = "module load"
    THEN [amb EXCEPT !.modules = load_module(@, c.name, FALSE).active]
    ELSE [amb EXCEPT !.modules = unload_module(@, c.name)]

RECURSIVE ExecCommands(_, _)
ExecCommands(cmds, amb) ==
    IF cmds = <<>> THEN amb
    ELSE ExecCommands(Tail(cmds), ExecCommand(cmds[1], amb))

Ambient == [environ |-> os_environ, modules |-> loaded_modules]

----------------------------------------------------------------------------
(* Initial states *)

DeclValues == {"new", "$X", "$Y"}
VariableDicts ==
    {d \in SeqsUpTo(VarNames \X DeclValues, MaxVars) :
        \A i, j \in 1..Len(d) : i # j => d[i][1] # d[j][1]}
ModuleLists == SeqsUpTo(Available, MaxModules)
\* module lists that may name a module the backend does not know
ModuleListsWithMissing == SeqsUpTo(Available \cup {Missing}, MaxModules)
AmbientEnvirons == [VarNames -> {NoValue, "old"}]
\* the backend never holds two conflicting modules when the program starts
AmbientModuleSets ==
    {S \in SUBSET Available : \A a, b \in S : <<a, b>> \notin ConflictPairs}

\* the value of env and other where no object stands
NoEnvironment == Environment("", <<>>, <<>>)

NoScript == [kind |-> "none", cmds |-> <<>>, environ |-> EmptyDict,
             modules |-> {}, cycles |-> 0, loaded |-> FALSE]
NoSnapshot == [name |-> "", modules |-> <<>>, variables |-> EmptyDict,
               conflicted |-> <<>>, loaded |-> FALSE]
NoGuard == [state |-> "none", environ_save |-> NoSnapshot, raised |-> FALSE,
            propagated |-> FALSE, steps |-> 0, loads |-> 0,
            pre_environ |-> EmptyDict, pre_modules |-> {},
            env_loaded_inside |-> FALSE, env_unloaded_inside |-> FALSE]
NoHist == [op |-> "none", raised |-> FALSE,
           pre_environ |-> EmptyDict, pre_modules |-> {},
           load_reqs |-> <<>>, unload_reqs |-> <<>>,
           cycles |-> 0, changes |-> 0,
           pre_env |-> NoEnvironment, result |-> FALSE]

Init ==
    /\ os_environ \in AmbientEnvirons
    /\ loaded_modules \in AmbientModuleSets
    /\ \E modules \in ModuleLists, variables \in VariableDicts :
          env = Environment("E", modules, variables)
    /\ script = NoScript
    /\ guard = NoGuard
    /\ backend \in BackendVariants
    /\ hist = NoHist
    /\ other = NoEnvironment

----------------------------------------------------------------------------
(* The caller's operations on the Environment *)

\* a call of E.load() on an Environment that is not loaded
LoadCall ==
    /\ ~env.loaded
    /\ hist.cycles < MaxCycles
    /\ LET r == Environment_load(env, os_environ, loaded_modules)
       IN  /\ env' = r.E
           /\ os_environ' = r.environ
           /\ loaded_modules' = r.active
           /\ hist' = [hist EXCEPT !.op = "load", !.raised = r.raised,
                                   !.pre_environ = os_environ,
                                   !.pre_modules = loaded_modules,
                                   !.load_reqs = r.reqs, !.unload_reqs = <<>>,
                                   !.cycles = @ + 1]
    /\ UNCHANGED <<script, backend, other>>

\* a call of E.unload() on a loaded Environment
UnloadCall ==
    /\ env.loaded
    /\ LET r == Environment_unload(env, os_environ, loaded_modules)
       IN  /\ env' = r.E
           /\ os_environ' = r.environ
           /\ loaded_modules' = r.active
           /\ hist' = [hist EXCEPT !.op = "unload", !.raised = r.raised,
                                   !.unload_reqs = r.reqs]
    /\ UNCHANGED <<script, backend, other>>

Load == LoadCall /\ UNCHANGED guard

Unload == UnloadCall /\ UNCHANGED guard

\* E.unload() on an Environment that is not loaded returns at once
UnloadNotLoaded ==
    /\ ~env.loaded
    /\ hist.op # "unload_noop"
    /\ LET r == Environment_unload(env, os_environ, loaded_modules)
       IN  /\ env' = r.E
           /\ os_environ' = r.environ
           /\ loaded_modules' = r.active
           /\ hist' = [hist EXCEPT !.op = "unload_noop", !.raised = r.raised]
    /\ UNCHANGED <<script, guard, backend, other>>

(* Another party changes the ambient state between two activations *)

OtherMayAct ==
    /\ ~env.loaded
    /\ hist.cycles >= 1
    /\ hist.cycles < MaxCycles
    /\ hist.changes < MaxChanges

OtherSetsVariable ==
    /\ OtherMayAct
    /\ \E k \in VarNames, v \in {"old", "alt", NoValue} :
          /\ os_environ[k] # v
          /\ os_environ' = [os_environ EXCEPT ![k] = v]
    /\ hist' = [hist EXCEPT !.op = "other", !.changes = @ + 1]
    /\ UNCHANGED <<loaded_modules, env, script, guard, backend, other>>

OtherLoadsModule ==
    /\ OtherMayAct
    /\ \E m \in Available \ loaded_modules :
          loaded_modules' = load_module(loaded_modules, m, TRUE).active
    /\ hist' = [hist EXCEPT !.op = "other", !.changes = @ + 1]
    /\ UNCHANGED <<os_environ, env, script, guard, backend, other>>

OtherUnloadsModule ==
    /\ OtherMayAct
    /\ \E m \in loaded_modules :
          loaded_modules' = unload_module(loaded_modules, m)
    /\ hist' = [hist EXCEPT !.op = "other", !.changes = @ + 1]
    /\ UNCHANGED <<os_environ, env, script, guard, backend, other>>

Next ==
    \/ Load
    \/ Unload
    \/ UnloadNotLoaded
    \/ OtherSetsVariable
    \/ OtherLoadsModule
    \/ OtherUnloadsModule

Spec == Init /\ [][Next]_vars

(* The emit_* calls: the returned list is kept, with the state it was made in *)

EmitLoad ==
    /\ LET r == emit_load_commands_call(env)
       IN  /\ env' = r.E
           /\ script' = [kind |-> "load", cmds |-> r.ret,
                         environ |-> os_environ, modules |-> loaded_modules,
                         cycles |-> hist.cycles, loaded |-> env.loaded]
    /\ script' # script
    /\ UNCHANGED <<os_environ, loaded_modules, guard, hist, backend, other>>

EmitUnload ==
    /\ LET r == emit_unload_commands_call(env)
       IN  /\ env' = r.E
           /\ script' = [kind |-> "unload", cmds |-> r.ret,
                         environ |-> os_environ, modules |-> loaded_modules,
                         cycles |-> hist.cycles, loaded |-> env.loaded]
    /\ script' # script
    /\ UNCHANGED <<os_environ, loaded_modules, guard, hist, backend, other>>

NextEmit ==
    \/ Load
    \/ Unload
    \/ EmitLoad
    \/ EmitUnload

SpecEmit == Init /\ [][NextEmit]_vars

(* Activation of an Environment that names a module the backend does not know *)

InitFail ==
    /\ os_environ \in AmbientEnvirons
    /\ loaded_modules \in AmbientModuleSets
    /\ \E modules \in ModuleListsWithMissing, variables \in VariableDicts :
          env = Environment("E", modules, variables)
    /\ script = NoScript
    /\ guard = NoGuard
    /\ backend \in BackendVariants
    /\ hist = NoHist
    /\ other = NoEnvironment

NextFail ==
    \/ Load
    \/ Unload
    \/ UnloadNotLoaded

SpecFail == InitFail /\ [][NextFail]_vars

(* A region protected by save_environment *)

\* the Environments a region loads: no module or B, no variable or X
GuardEnvironments ==
    {Environment("E", modules, variables) :
        modules \in {<<>>, <<"B">>},
        variables \in {d \in VariableDicts : \A i \in 1..Len(d) : d[i][1] = "X"}}

InitGuard ==
    /\ os_environ \in AmbientEnvirons
    /\ loaded_modules \in {{}, {"A"}}
    /\ env \in GuardEnvironments
    /\ script = NoScript
    /\ guard = NoGuard
    /\ backend \in BackendVariants
    /\ hist = NoHist
    /\ other = NoEnvironment

\* with save_environment() as snap:
GuardEnter ==
    /\ guard.state = "none"
    /\ guard' = [guard EXCEPT
                   !.state = "region",
                   !.environ_save = save_environment_init(os_environ, loaded_modules),
                   !.pre_environ = os_environ,
                   !.pre_modules = loaded_modules]
    /\ UNCHANGED <<os_environ, loaded_modules, env, script, hist, backend, other>>

\* the region sets, changes or removes an ambient variable
RegionSetsVariable ==
    /\ guard.state = "region"
    /\ guard.steps < MaxRegionSteps
    /\ \E k \in VarNames, v \in {"alt", NoValue} :
          /\ os_environ[k] # v
          /\ os_environ' = [os_environ EXCEPT ![k] = v]
    /\ guard' = [guard EXCEPT !.steps = @ + 1]
    /\ hist' = [hist EXCEPT !.op = "region"]
    /\ UNCHANGED <<loaded_modules, env, script, backend, other>>

\* the region loads the Environment
RegionLoadsEnvironment ==
    /\ guard.state = "region"
    /\ LoadCall
    /\ guard' = [guard EXCEPT !.env_loaded_inside = TRUE]

\* the region unloads the Environment
RegionUnloadsEnvironment ==
    /\ guard.state = "region"
    /\ UnloadCall
    /\ guard' = [guard EXCEPT !.env_unloaded_inside = TRUE]

\* the region calls load() on the snapshot the guard handed to it
RegionLoadsSnapshot ==
    /\ guard.state = "region"
    /\ guard.loads < MaxSnapshotLoads
    /\ LET r == EnvironmentSnapshot_load(guard.environ_save, os_environ)
       IN  /\ os_environ' = r.environ
           /\ guard' = [guard EXCEPT !.environ_save = r.snap, !.loads = @ + 1]
    /\ hist' = [hist EXCEPT !.op = "snapshot_load", !.pre_environ = os_environ]
    /\ UNCHANGED <<loaded_modules, env, script, backend, other>>

\* the region raises
RegionRaises ==
    /\ guard.state = "region"
    /\ guard' = [guard EXCEPT !.state = "raising", !.raised = TRUE]
    /\ UNCHANGED <<os_environ, loaded_modules, env, script, hist, backend, other>>

\* the scope is left, by the end of the region or by its exception
GuardExit ==
    /\ guard.state \in {"region", "raising"}
    /\ LET r == save_environment_exit(guard.environ_save, os_environ,
                                      guard.state = "raising")
       IN  /\ os_environ' = r.environ
           /\ guard' = [guard EXCEPT !.state = "exited",
                                     !.environ_save = r.snap,
                                     !.propagated = r.propagated]
    /\ hist' = [hist EXCEPT !.op = "guard_exit", !.pre_environ = os_environ]
    /\ UNCHANGED <<loaded_modules, env, script, backend, other>>

NextGuard ==
    \/ GuardEnter
    \/ RegionSetsVariable
    \/ RegionLoadsEnvironment
    \/ RegionUnloadsEnvironment
    \/ RegionLoadsSnapshot
    \/ RegionRaises
    \/ GuardExit

SpecGuard == InitGuard /\ [][NextGuard]_vars

----------------------------------------------------------------------------
(* Claims about load() and unload() *)

PreLoadAmbient == [environ |-> hist.pre_environ, modules |-> hist.pre_modules]
UnloadRequested(m) ==
    \E i \in 1..Len(hist.unload_reqs) :
        hist.unload_reqs[i].op = "unload" /\ hist.unload_reqs[i].module = m
IsLiteral(v) == ~IsRef(v)

\* C1: load() then unload() on a freshly constructed Environment leaves the
\* ambient variables and the set of active modules as they were before load().
C1_RoundTrip ==
    (hist.op = "unload" /\ hist.cycles = 1 /\ ~hist.raised)
        => Ambient = PreLoadAmbient

\* C2: a module A that load() force-unloaded to load the declared module B,
\* and that load() did not find preloaded, is active after the matching
\* unload(), and B is not.
C2_ConflictRestore ==
    (hist.op = "unload" /\ ~hist.raised)
        => \A i \in 1..Len(hist.load_reqs) :
             \A a \in Range(hist.load_reqs[i].unloaded) :
                a \notin env.preloaded
                  => /\ a \in loaded_modules
                     /\ hist.load_reqs[i].module \notin loaded_modules

\* C3: a declared module that was active when load() was called gets no
\* unload request from the matching unload() and is active after it.
C3_PreloadExemption ==
    (hist.op = "unload" /\ ~hist.raised)
        => \A m \in Range(env.modules) \cap hist.pre_modules :
              /\ ~UnloadRequested(m)
              /\ m \in loaded_modules

\* C4: a declared variable with a literal value holds that value after
\* load(), and after the matching unload() holds what it held before load():
\* its old value, or nothing if it was absent.
C4_ShadowRestore ==
    \A i \in 1..Len(env.variables) :
        LET k == env.variables[i][1]
            v == env.variables[i][2]
        IN  IsLiteral(v) =>
              /\ (hist.op = "load" /\ ~hist.raised) => os_environ[k] = v
              /\ (hist.op = "unload" /\ ~hist.raised)
                    => os_environ[k] = hist.pre_environ[k]


----------------------------------------------------------------------------
(* Claims about the emitted commands *)

ScriptAmbient == [environ |-> script.environ, modules |-> script.modules]

\* C5: running the commands of emit_load_commands() from the state load()
\* started in gives the variables and the active modules load() gives.  The
\* list is the one E returned right before this load() or right after it.
C5_EmissionFidelity ==
    (/\ hist.op = "load" /\ ~hist.raised
     /\ script.kind = "load"
     /\ \/ ~script.loaded /\ script.cycles + 1 = hist.cycles
        \/ script.loaded /\ script.cycles = hist.cycles)
        => ExecCommands(script.cmds, PreLoadAmbient) = Ambient

\* C6: running the commands that emit_unload_commands() returned on the
\* loaded Environment, from the state after load(), gives the variables and
\* the active modules unload() gives.
C6_DryUnload ==
    (/\ hist.op = "unload" /\ ~hist.raised
     /\ script.kind = "unload"
     /\ script.loaded /\ script.cycles = hist.cycles)
        => ExecCommands(script.cmds, ScriptAmbient) = Ambient

----------------------------------------------------------------------------
(* Claims about save_environment and EnvironmentSnapshot *)

\* C7: when the scope of save_environment is left, by the end of the region
\* or by an exception, os.environ is what it was when the guard was made,
\* and an exception of the region goes on to the caller.
C7_GuardRestores ==
    guard.state = "exited"
        => /\ os_environ = guard.pre_environ
           /\ guard.propagated = guard.raised

\* the region changed a variable, raised, and the exit repaired os.environ
C7_Witness ==
    /\ guard.state = "exited"
    /\ guard.raised
    /\ hist.op = "guard_exit"
    /\ hist.pre_environ # guard.pre_environ

\* C8: after the exit of a guard in whose region an Environment was loaded
\* and never unloaded, the variables and the active modules are those of
\* the moment the guard was made.
C8_GuardRestoresModules ==
    (guard.state = "exited" /\ guard.env_loaded_inside
                           /\ ~guard.env_unloaded_inside)
        => Ambient = [environ |-> guard.pre_environ, modules |-> guard.pre_modules]

\* C9: the snapshot keeps the mapping it captured, whatever the region does
\* to os.environ, and after each of its load() calls os.environ is exactly
\* that mapping: captured values back, every other variable absent.
C9_SnapshotLoad ==
    /\ guard.state # "none" => guard.environ_save.variables = guard.pre_environ
    /\ hist.op \in {"snapshot_load", "guard_exit"}
          => \A k \in VarNames : os_environ[k] = guard.environ_save.variables[k]

\* a second load() of the snapshot that had to remove a variable the region
\* added and to bring back a value the region changed or removed
C9_Witness ==
    /\ hist.op = "snapshot_load"
    /\ guard.loads >= 2
    /\ \E k \in VarNames :
          guard.pre_environ[k] = NoValue /\ hist.pre_environ[k] # NoValue
    /\ \E k \in VarNames :
          guard.pre_environ[k] # NoValue /\ hist.pre_environ[k] # guard.pre_environ[k]

----------------------------------------------------------------------------
(* Claims about a failure of the backend *)

\* the modules left active by a list of answered load requests
RECURSIVE ReplayLoads(_, _)
ReplayLoads(reqs, active) ==
    IF reqs = <<>> THEN active
    ELSE ReplayLoads(Tail(reqs),
                     (active \ Range(reqs[1].unloaded)) \cup {reqs[1].module})

\* C10: a load() that names an unknown module ends with the backend's error
\* at that module; what the requests before it loaded and force-unloaded
\* stays, no request undoes it, no variable is touched, and the Environment
\* is not marked loaded.
C10_NoRollback ==
    /\ (hist.op = "load" /\ Missing \in Range(env.modules)) => hist.raised
    /\ (hist.op = "load" /\ hist.raised) =>
          LET k == Len(hist.load_reqs)
          IN  /\ k >= 1
              /\ env.modules[k] = Missing
              /\ \A i \in 1..k :
                    /\ hist.load_reqs[i].op = "load"
                    /\ hist.load_reqs[i].module = env.modules[i]
              /\ loaded_modules =
                    ReplayLoads(SubSeq(hist.load_reqs, 1, k - 1), hist.pre_modules)
              /\ os_environ = hist.pre_environ
              /\ ~env.loaded

\* the load() failed at its second module after the first one had
\* force-unloaded an active module, with variables declared
C10_Witness ==
    /\ hist.op = "load" /\ hist.raised
    /\ Len(hist.load_reqs) = 2
    /\ hist.load_reqs[1].unloaded # <<>>
    /\ loaded_modules # hist.pre_modules
    /\ Len(env.variables) >= 1

----------------------------------------------------------------------------
(* Claims about the bookkeeping of one activation cycle *)

\* what one load() writes into the log for its requests: the forced unloads
\* of a request, then its load entry
RECURSIVE OpsOf(_)
OpsOf(reqs) ==
    IF reqs = <<>> THEN <<>>
    ELSE LET r == Head(reqs)
         IN  [j \in 1..Len(r.unloaded) |-> <<"u", r.unloaded[j]>>]
             \o << <<"l", r.module>> >> \o OpsOf(Tail(reqs))

\* the modules one load() displaced, in the order of its requests
RECURSIVE UnloadedBy(_)
UnloadedBy(reqs) ==
    IF reqs = <<>> THEN <<>>
    ELSE Head(reqs).unloaded \o UnloadedBy(Tail(reqs))

\* C11: after a load() that returned, the log, the saved variables, the
\* conflicted list and the preloaded set hold the data of that load() alone:
\* the log is that call's operations (one load entry per declared module and
\* that call's forced unloads), the conflicted list that call's displaced
\* modules, the preloaded set declared modules only that were active before
\* the call or were declared twice, the saved variables the declared
\* variables that were set before the call.
C11_SingleCycle ==
    (hist.op = "load" /\ ~hist.raised) =>
        /\ env.module_ops = OpsOf(hist.load_reqs)
        /\ Len(hist.load_reqs) = Len(env.modules)
        /\ env.conflicted = UnloadedBy(hist.load_reqs)
        /\ env.preloaded \subseteq Range(env.modules)
        /\ \A k \in VarNames :
              env.saved_variables[k] # NoValue =>
                  /\ \E i \in 1..Len(env.variables) : env.variables[i][1] = k
                  /\ hist.pre_environ[k] # NoValue

----------------------------------------------------------------------------
(* A second load() while the Environment is loaded *)

\* a call of E.load() on an Environment that is loaded already: load() does
\* not look at the flag
LoadWhileLoaded ==
    /\ env.loaded
    /\ hist.cycles < MaxCycles
    /\ LET r == Environment_load(env, os_environ, loaded_modules)
       IN  /\ env' = r.E
           /\ os_environ' = r.environ
           /\ loaded_modules' = r.active
           /\ hist' = [hist EXCEPT !.op = "load_again", !.raised = r.raised,
                                   !.pre_environ = os_environ,
                                   !.pre_modules = loaded_modules,
                                   !.pre_env = env,
                                   !.load_reqs = r.reqs, !.unload_reqs = <<>>,
                                   !.cycles = @ + 1]
    /\ UNCHANGED <<script, guard, backend, other>>

NextReentry ==
    \/ Load
    \/ Unload
    \/ LoadWhileLoaded

SpecReentry == Init /\ [][NextReentry]_vars

\* C12: load() on an Environment that is loaded already ends in an error and
\* leaves the ambient variables, the active modules and every field of the
\* Environment as they were.
C12_ReentrantLoadRejected ==
    hist.op = "load_again" =>
        /\ hist.raised
        /\ os_environ = hist.pre_environ
        /\ loaded_modules = hist.pre_modules
        /\ env = hist.pre_env

----------------------------------------------------------------------------
(* Equality of two Environments *)

\* Environment.__eq__ for two Environment objects: the names, the module
\* lists as sets, and the two OrderedDicts of variables, whose == compares
\* the pairs in their order of insertion
Environment_eq(self, o) ==
    /\ self.name = o.name
    /\ Range(self.modules) = Range(o.modules)
    /\ self.variables = o.variables

EqNames == {"E", "F"}
EqModuleLists == SeqsUpTo({"A", "B"}, MaxModules)
EqVariableDicts ==
    {d \in VariableDicts : \A i \in 1..Len(d) : d[i][2] \in {"new", "$X"}}

InitEq ==
    /\ os_environ = EmptyDict
    /\ loaded_modules = {}
    /\ \E n \in EqNames, modules \in EqModuleLists, variables \in EqVariableDicts :
          env = Environment(n, modules, variables)
    /\ \E n \in EqNames, modules \in EqModuleLists, variables \in EqVariableDicts :
          other = Environment(n, modules, variables)
    /\ script = NoScript
    /\ guard = NoGuard
    /\ backend = "permissive"
    /\ hist = NoHist

\* the caller evaluates env == other
Compare ==
    /\ hist.op # "eq"
    /\ hist' = [hist EXCEPT !.op = "eq", !.result = Environment_eq(env, other)]
    /\ UNCHANGED <<os_environ, loaded_modules, env, other, script, guard, backend>>

SpecEq == InitEq /\ [][Compare]_vars

\* the mapping a sequence of (name, value) pairs stands for
DictOf(variables) ==
    [k \in VarNames |->
        IF \E i \in 1..Len(variables) : variables[i][1] = k
        THEN (CHOOSE p \in Range(variables) : p[1] = k)[2]
        ELSE NoValue]

\* C13: two Environments compare equal exactly when they have the same name,
\* the same set of modules whatever the order of the lists, and the same
\* mapping of variables whatever the order of insertion.
C13_Equality ==
    hist.op = "eq" =>
        (hist.result <=>
            /\ env.name = other.name
            /\ Range(env.modules) = Range(other.modules)
            /\ DictOf(env.variables) = DictOf(other.variables))

----------------------------------------------------------------------------
(* Construction of an Environment from a name *)

\* a name is a sequence of characters; these stand for a letter, a digit, the
\* underscore, the hyphen, a space and a dot
MaxNameLen == 2
WordChars == {"a", "1", "_"}
NameChars == WordChars \cup {"-", " ", "."}
Names == SeqsUpTo(NameChars, MaxNameLen)

\* the grammar (\w|-)+ of the name field: one character at least, each a word
\* character or a hyphen
NameMatches(name) ==
    /\ Len(name) >= 1
    /\ \A i \in 1..Len(name) : name[i] \in WordChars \cup {"-"}

\* Environment(name, modules, variables) as the caller sees it.  The class
\* body binds name, modules and variables to typed fields and then binds the
\* same three names again to read-only properties, and __init__ writes the
\* private attributes: no value is checked and the call always returns.
Environment_new(name, modules, variables) ==
    [raised |-> FALSE, E |-> Environment(name, modules, variables)]

InitConstruct ==
    /\ os_environ = EmptyDict
    /\ loaded_modules = {}
    /\ env = NoEnvironment
    /\ other = NoEnvironment
    /\ script = NoScript
    /\ guard = NoGuard
    /\ backend = "permissive"
    /\ hist = NoHist

Construct ==
    /\ hist.op = "none"
    /\ \E name \in Names, modules \in ModuleLists, variables \in EqVariableDicts :
          LET r == Environment_new(name, modules, variables)
          IN  /\ env' = IF r.raised THEN env ELSE r.E
              /\ hist' = [hist EXCEPT !.op = "construct", !.raised = r.raised]
    /\ UNCHANGED <<os_environ, loaded_modules, other, script, guard, backend>>

SpecConstruct == InitConstruct /\ [][Construct]_vars

\* C14: a construction either fails and yields no object, or yields an
\* Environment whose name matches (\w|-)+; no Environment with an empty name
\* or with a space in its name is ever constructed.
C14_NameValidated ==
    hist.op = "construct" =>
        \/ hist.raised /\ env = NoEnvironment
        \/ ~hist.raised /\ NameMatches(env.name)

----------------------------------------------------------------------------
(* Claims about the emitted command lists as such *)

\* emission after any number of load() and unload() calls; the ambient
\* variables play no part in what is emitted
InitPure ==
    /\ os_environ = EmptyDict
    /\ loaded_modules \in AmbientModuleSets
    /\ \E modules \in ModuleLists, variables \in VariableDicts :
          env = Environment("E", modules, variables)
    /\ other = NoEnvironment
    /\ script = NoScript
    /\ guard = NoGuard
    /\ backend \in BackendVariants
    /\ hist = NoHist

SpecPure == InitPure /\ [][NextEmit]_vars

\* C15: emit_load_commands() and emit_unload_commands() change nothing: in
\* every state a call leaves every field of the Environment as it was and a
\* second call right after it returns the same list, and every step that is
\* an emission leaves os.environ, the active modules and the Environment
\* unchanged.
C15_EmissionPure ==
    /\ [](LET l == emit_load_commands_call(env)
              u == emit_unload_commands_call(env)
          IN  /\ l.E = env
              /\ u.E = env
              /\ emit_load_commands_call(l.E).ret = l.ret
              /\ emit_unload_commands_call(u.E).ret = u.ret
              /\ emit_unload_commands_call(l.E).ret = u.ret
              /\ emit_load_commands_call(u.E).ret = l.ret)
    /\ [][script' # script =>
            /\ os_environ' = os_environ
            /\ loaded_modules' = loaded_modules
            /\ env' = env]_vars

\* an emission was made from an Environment that was loaded and unloaded
\* again, whose log is not empty
C15_Witness ==
    /\ script.kind = "unload"
    /\ script.cycles = 1
    /\ ~script.loaded
    /\ ~env.loaded
    /\ env.module_ops # <<>>
    /\ env.variables # <<>>
    /\ script.cmds = emit_unload_commands(env)

\* a module command with the roles exchanged
SwapRole(c) ==
    [c EXCEPT !.cmd = IF @ = "module load" THEN "module unload" ELSE "module load"]

\* C16: emit_unload_commands() returns one unset per declared variable in
\* declared order, then one module command per entry of the log walked
\* backwards, a logged load as the backend's unload command and a logged
\* unload as its load command; with an empty log, the backend's unload command
\* for each declared module in reverse declared order.  Its module part is
\* the module part of emit_load_commands() in the same state, reversed, with
\* the roles exchanged.
C16_UnloadShape ==
    LET u == emit_unload_commands(env)
        l == emit_load_commands(env)
        log == env.module_ops
        nv == Len(env.variables)
        nm == IF log # <<>> THEN Len(log) ELSE Len(env.modules)
    IN  /\ Len(u) = nv + nm
        /\ Len(l) = nm + nv
        /\ \A i \in 1..nv :
              u[i] = [cmd |-> "unset", name |-> env.variables[i][1], value |-> ""]
        /\ \A j \in 1..nm :
              /\ log # <<>> =>
                    LET e == log[nm + 1 - j]
                    IN  u[nv + j] = IF e[1] = "l"
                                    THEN backend_emit_unload_commands(e[2])[1]
                                    ELSE backend_emit_load_commands(e[2])[1]
              /\ log = <<>> =>
                    u[nv + j] = backend_emit_unload_commands(env.modules[nm + 1 - j])[1]
              /\ u[nv + j] = SwapRole(l[nm + 1 - j])

\* an unload list was emitted from a loaded Environment with two variables
\* whose log holds a forced unload
C16_Witness ==
    /\ script.kind = "unload"
    /\ script.loaded
    /\ env.loaded
    /\ script.cmds = emit_unload_commands(env)
    /\ Len(env.variables) = 2
    /\ \E i \in 1..Len(env.module_ops) : env.module_ops[i][1] = "u"

----------------------------------------------------------------------------
(* The operations an EnvironmentSnapshot does not support *)

\* the region calls unload() on the snapshot and catches the error
RegionUnloadsSnapshot ==
    /\ guard.state = "region"
    /\ LET r == EnvironmentSnapshot_unload(guard.environ_save, os_environ,
                                           loaded_modules)
       IN  /\ os_environ' = r.environ
           /\ loaded_modules' = r.active
           /\ guard' = [guard EXCEPT !.environ_save = r.snap]
           /\ hist' = [hist EXCEPT !.op = "snapshot_unload",
                                   !.raised = r.raised,
                                   !.pre_environ = os_environ,
                                   !.pre_modules = loaded_modules,
                                   !.pre_env = guard.environ_save]
    /\ UNCHANGED <<env, script, backend, other>>

\* the region reads is_loaded of the snapshot and catches the error
RegionReadsIsLoaded ==
    /\ guard.state = "region"
    /\ LET r == EnvironmentSnapshot_is_loaded(guard.environ_save, os_environ,
                                              loaded_modules)
       IN  /\ os_environ' = r.environ
           /\ loaded_modules' = r.active
           /\ guard' = [guard EXCEPT !.environ_save = r.snap]
           /\ hist' = [hist EXCEPT !.op = "snapshot_is_loaded",
                                   !.raised = r.raised,
                                   !.pre_environ = os_environ,
                                   !.pre_modules = loaded_modules,
                                   !.pre_env = guard.environ_save]
    /\ UNCHANGED <<env, script, backend, other>>

NextSnapshot ==
    \/ GuardEnter
    \/ RegionSetsVariable
    \/ RegionLoadsSnapshot
    \/ RegionUnloadsSnapshot
    \/ RegionReadsIsLoaded

SpecSnapshot == InitGuard /\ [][NextSnapshot]_vars

\* C17: unload() on an EnvironmentSnapshot and a read of its is_loaded, before
\* or after the snapshot's load(), end in an error and leave os.environ, the
\* active modules and the snapshot as they were.
C17_SnapshotUnsupported ==
    hist.op \in {"snapshot_unload", "snapshot_is_loaded"} =>
        /\ hist.raised
        /\ os_environ = hist.pre_environ
        /\ loaded_modules = hist.pre_modules
        /\ guard.environ_save = hist.pre_env

\* unload() was called on a snapshot after its load(), in an ambient state
\* that was changed again since
C17_Witness ==
    /\ hist.op = "snapshot_unload"
    /\ guard.environ_save.loaded
    /\ os_environ # guard.environ_save.variables
    /\ guard.environ_save.variables # EmptyDict

----------------------------------------------------------------------------
(* Claims about the order of the steps of load() and unload() *)

\* the unload requests unload() owes: the declared modules from the last to
\* the first, those found preloaded left out
OwedUnloads(E) ==
    LET ms == SelectSeq(Reverse(E.modules), LAMBDA m : m \notin E.preloaded)
    IN  [i \in 1..Len(ms) |-> Request("unload", ms[i], FALSE, <<>>)]

\* C18: the requests of an unload() on a loaded Environment are, first, one
\* unload request for each declared module not in the preloaded set, in
\* reverse declared order and none for a preloaded module, and only then one
\* plain load request for each entry of the conflicted list, in its order.
\* The declared variables are restored or removed before any request, so
\* they are even when a request fails, and the loaded flag is cleared after
\* the last request only, so it still stands when a request fails.
C18_UnloadOrder ==
    hist.op = "unload" =>
        LET reqs == hist.unload_reqs
            owed == OwedUnloads(env)
            nu == Len(owed)
            nr == Len(reqs) - nu
        IN  /\ nr >= 0
            /\ SubSeq(reqs, 1, nu) = owed
            /\ nr <= Len(env.conflicted)
            /\ \A i \in 1..nr :
                  /\ reqs[nu + i].op = "load"
                  /\ ~reqs[nu + i].force
                  /\ reqs[nu + i].module = env.conflicted[i]
            /\ \A i \in 1..Len(env.variables) :
                  os_environ[env.variables[i][1]]
                      = env.saved_variables[env.variables[i][1]]
            /\ IF hist.raised
               THEN env.loaded
               ELSE ~env.loaded /\ nr = Len(env.conflicted)

\* an unload() that restored a variable, asked for two unloads and then for
\* a reload
C18_Witness ==
    /\ hist.op = "unload"
    /\ ~hist.raised
    /\ Len(hist.unload_reqs) = 3
    /\ hist.unload_reqs[1].op = "unload"
    /\ hist.unload_reqs[2].op = "unload"
    /\ hist.unload_reqs[1].module # hist.unload_reqs[2].module
    /\ hist.unload_reqs[3].op = "load"
    /\ \E i \in 1..Len(env.variables) :
          /\ env.saved_variables[env.variables[i][1]] = "old"
          /\ os_environ[env.variables[i][1]] = "old"

\* C19: after a load() that returned, each declared variable holds its
\* declared value expanded against the mapping of its own step: a literal as
\* it is; a reference to a variable declared earlier, the value this load()
\* gave to that variable; any other reference, the value the variable had
\* before the load(), also when the variable is declared later, and the
\* reference itself when the variable was not set.  The value saved for a
\* declared variable that was set before the load() is the value it had then.
C19_ExpansionOrder ==
    (hist.op = "load" /\ ~hist.raised) =>
        \A i \in 1..Len(env.variables) :
            LET k == env.variables[i][1]
                v == env.variables[i][2]
                n == RefName(v)
                earlier == \E j \in 1..(i - 1) : env.variables[j][1] = n
            IN  /\ os_environ[k] =
                      IF ~IsRef(v) THEN v
                      ELSE IF earlier THEN os_environ[n]
                      ELSE IF hist.pre_environ[n] # NoValue THEN hist.pre_environ[n]
                      ELSE v
                /\ hist.pre_environ[k] # NoValue =>
                      env.saved_variables[k] = hist.pre_environ[k]

\* a load() of X = new, Y = $X in an ambient state where X was old
C19_Witness ==
    /\ hist.op = "load"
    /\ ~hist.raised
    /\ env.variables = << <<"X", "new">>, <<"Y", "$X">> >>
    /\ hist.pre_environ["X"] = "old"
    /\ os_environ["Y"] = "new"
    /\ env.saved_variables["X"] = "old"

----------------------------------------------------------------------------
(* Claims about a second activation of the same Environment *)

\* the declared modules are pairwise distinct and none conflicts with another
PlainDeclaration(E) ==
    \A i, j \in 1..Len(E.modules) :
        i # j => /\ E.modules[i] # E.modules[j]
                 /\ <<E.modules[i], E.modules[j]>> \notin ConflictPairs

\* C20: after load(), unload(), any change of the ambient state by another
\* party, and load(), unload() again, the ambient variables and the active
\* modules are what they were before the second load().  Stated for an
\* Environment whose declared modules are distinct and do not conflict with
\* each other, for which the first activation does restore the ambient state.
C20_NoStaleState ==
    (hist.op = "unload" /\ hist.cycles = 2 /\ ~hist.raised /\ PlainDeclaration(env))
        => Ambient = PreLoadAmbient

----------------------------------------------------------------------------
(* Two Environments, A (env) and B (other), activated one inside the other *)

\* swap_environments(src, dst): src.unload(), then dst.load(); an error of
\* src.unload() leaves before dst.load()
swap_environments(src, dst, environ, active) ==
    LET u == Environment_unload(src, environ, active)
        l == Environment_load(dst, u.environ, u.active)
    IN  IF u.raised
        THEN [src |-> u.E, dst |-> dst, environ |-> u.environ,
              active |-> u.active, raised |-> TRUE]
        ELSE [src |-> u.E, dst |-> l.E, environ |-> l.environ,
              active |-> l.active, raised |-> l.raised]

\* the variables the two Environments declare: none, or X alone
NestedVariableDicts ==
    {d \in VariableDicts : Len(d) <= 1 /\ \A i \in 1..Len(d) : d[i][1] = "X"}

\* the ambient variables the two meet: X set or not, Y not set
NestedAmbientEnvirons == {e \in AmbientEnvirons : e["Y"] = NoValue}

InitNested ==
    /\ os_environ \in NestedAmbientEnvirons
    /\ loaded_modules \in AmbientModuleSets
    /\ \E modules \in ModuleLists, variables \in NestedVariableDicts :
          env = Environment("A", modules, variables)
    /\ \E modules \in ModuleLists, variables \in NestedVariableDicts :
          other = Environment("B", modules, variables)
    /\ script = NoScript
    /\ guard = NoGuard
    /\ backend \in BackendVariants
    /\ hist = NoHist

\* A.load() in the ambient state S, which the history keeps
NestedLoadA ==
    /\ hist.op = "none"
    /\ LET r == Environment_load(env, os_environ, loaded_modules)
       IN  /\ env' = r.E
           /\ os_environ' = r.environ
           /\ loaded_modules' = r.active
           /\ hist' = [hist EXCEPT !.op = "A.load", !.raised = r.raised,
                                   !.pre_environ = os_environ,
                                   !.pre_modules = loaded_modules]
    /\ UNCHANGED <<other, script, guard, backend>>

\* B.load() while A is loaded
NestedLoadB ==
    /\ hist.op = "A.load"
    /\ ~hist.raised
    /\ LET r == Environment_load(other, os_environ, loaded_modules)
       IN  /\ other' = r.E
           /\ os_environ' = r.environ
           /\ loaded_modules' = r.active
           /\ hist' = [hist EXCEPT !.op = "B.load", !.raised = r.raised]
    /\ UNCHANGED <<env, script, guard, backend>>

\* B.unload(), the inner one first
NestedUnloadB ==
    /\ hist.op = "B.load"
    /\ ~hist.raised
    /\ LET r == Environment_unload(other, os_environ, loaded_modules)
       IN  /\ other' = r.E
           /\ os_environ' = r.environ
           /\ loaded_modules' = r.active
           /\ hist' = [hist EXCEPT !.op = "B.unload", !.raised = r.raised]
    /\ UNCHANGED <<env, script, guard, backend>>

\* A.unload(), the outer one last
NestedUnloadA ==
    /\ hist.op = "B.unload"
    /\ ~hist.raised
    /\ LET r == Environment_unload(env, os_environ, loaded_modules)
       IN  /\ env' = r.E
           /\ os_environ' = r.environ
           /\ loaded_modules' = r.active
           /\ hist' = [hist EXCEPT !.op = "A.unload", !.raised = r.raised]
    /\ UNCHANGED <<other, script, guard, backend>>

\* swap_environments(A, B) while A is loaded
SwapAB ==
    /\ hist.op = "A.load"
    /\ ~hist.raised
    /\ LET r == swap_environments(env, other, os_environ, loaded_modules)
       IN  /\ env' = r.src
           /\ other' = r.dst
           /\ os_environ' = r.environ
           /\ loaded_modules' = r.active
           /\ hist' = [hist EXCEPT !.op = "swap", !.raised = r.raised]
    /\ UNCHANGED <<script, guard, backend>>

\* B.unload() after the swap
UnloadBAfterSwap ==
    /\ hist.op = "swap"
    /\ ~hist.raised
    /\ LET r == Environment_unload(other, os_environ, loaded_modules)
       IN  /\ other' = r.E
           /\ os_environ' = r.environ
           /\ loaded_modules' = r.active
           /\ hist' = [hist EXCEPT !.op = "swap_B.unload", !.raised = r.raised]
    /\ UNCHANGED <<env, script, guard, backend>>

NextNested ==
    \/ NestedLoadA
    \/ NestedLoadB
    \/ NestedUnloadB
    \/ NestedUnloadA
    \/ SwapAB
    \/ UnloadBAfterSwap

SpecNested == InitNested /\ [][NextNested]_vars

\* C21: for two fresh Environments A and B and an ambient state S,
\* A.load(); B.load(); B.unload(); A.unload() ends with os.environ and the
\* active modules equal to S, and so does A.load(); swap_environments(A, B);
\* B.unload().
C21_NestedRestores ==
    (hist.op \in {"A.unload", "swap_B.unload"} /\ ~hist.raised)
        => Ambient = PreLoadAmbient
============================================================================
